---- MODULE Spec2Model ----
(***************************************************************************)
(* PRAY2 generator (span_params_with_adhanpy_csv_bin.py): the RTC field    *)
(* validator, the schedule table builder and the binary writer, as state   *)
(* machines over bounded inputs.                                           *)
(*                                                                         *)
(* A Python str is a sequence of one-character strings; a bytes object is  *)
(* a sequence of integers in 0..255; None is the record NoneVal.           *)
(***************************************************************************)
EXTENDS Integers, Sequences, FiniteSets, TLC

VARIABLES
    \* ask_rtc_ascii / validate_rtc_ascii
    rtc_pc,     \* "in": validate_rtc_ascii not yet called; "out": it returned
    rtc_in,     \* the argument s of validate_rtc_ascii
    rtc_v,      \* its result
    rtc_again,  \* the result of validate_rtc_ascii on a value it returned
    \* one iteration of the loop body of compute_minutes_table
    tb_pc,      \* "in": before line 152; "out": after line 162
    tb_pt,      \* pt: the oracle's five times, in minutes after the date's midnight
    tb_offsets, \* offsets[p] for p in PRAYERS
    tb_raw,     \* t as built at line 158
    tb_row,     \* the tuple appended to rows at line 162
    \* write_pray2_bin
    pc,         \* "idle", "table" (in compute_minutes_table), "write" (buf built),
                \* "opened" (after open(path, "wb")), "done" (file written),
                \* "raised" (an exception left the call)
    args,       \* the arguments of the call in progress
    cur,        \* d of daterange (line 84)
    rows,       \* rows of compute_minutes_table
    oracle,     \* the PrayerTimes results seen so far, by the date's ordinal
    buf,        \* buf of write_pray2_bin
    err,        \* the exception raised, if any
    fs,         \* the files: path -> contents, NoneVal when absent
    fs_before,  \* fs as it was when the call in progress was made
    clock,      \* the time of day of the machine, advancing with every call
    runs,       \* the completed calls: their arguments and the bytes written
    METHOD_CODE, \* the module-level dict of lines 29-32
    \* get_default_durations
    dur_pc,     \* "in": in the loop over PRAYERS; "returned"
    dur_typed,  \* the lines read from the keyboard so far, one per prayer
    dur_out,    \* out
    \* ask_rtc_ascii
    ask_pc,     \* "in", "prompt" (before input), "typed" (after line 68),
                \* "checked" (after line 71), "returned"
    ask_now,    \* datetime.now(ZoneInfo(tzname)) at line 63
    ask_default,\* default
    ask_s,      \* s
    ask_v,      \* v
    ask_ret,    \* the value returned
    ask_rejected, \* how many entries were refused so far
    \* main, lines 237-264 and the day count of the call at lines 286-287
    mn_pc,      \* "year", "choice", "first", "second" (before the ask_int of that
                \* answer), "span" (answers complete), "resolved", "packed"
    mn_year,    \* year
    mn_choice,  \* choice
    mn_ans,     \* the answers ask_int returned after the choice, in order
    mn_start,   \* start
    mn_end,     \* end
    mn_days,    \* days, as write_pray2_bin computes it
    mn_err      \* the exception of packing days, "" when there is none

wrVars == <<pc, args, cur, rows, oracle, buf, err, fs, fs_before, clock, runs, METHOD_CODE>>
vars == <<rtc_pc, rtc_in, rtc_v, rtc_again, tb_pc, tb_pt, tb_offsets, tb_raw, tb_row,
          pc, args, cur, rows, oracle, buf, err, fs, fs_before, clock, runs, METHOD_CODE,
          dur_pc, dur_typed, dur_out,
          ask_pc, ask_now, ask_default, ask_s, ask_v, ask_ret, ask_rejected,
          mn_pc, mn_year, mn_choice, mn_ans, mn_start, mn_end, mn_days, mn_err>>
mainVars == <<mn_pc, mn_year, mn_choice, mn_ans, mn_start, mn_end, mn_days, mn_err>>
durVars == <<dur_pc, dur_typed, dur_out>>
askVars == <<ask_pc, ask_now, ask_default, ask_s, ask_v, ask_ret, ask_rejected>>
rtcVars == <<rtc_pc, rtc_in, rtc_v, rtc_again>>
tbVars == <<tb_pc, tb_pt, tb_offsets, tb_raw, tb_row>>

(***************************************************************************)
(* Python values                                                           *)
(***************************************************************************)
NoneVal == [ok |-> FALSE, val |-> <<>>]
Some(v) == [ok |-> TRUE, val |-> v]

Digits == {"0", "1", "2", "3", "4", "5", "6", "7", "8", "9"}
DigitVal(c) ==
    CASE c = "0" -> 0 [] c = "1" -> 1 [] c = "2" -> 2 [] c = "3" -> 3
      [] c = "4" -> 4 [] c = "5" -> 5 [] c = "6" -> 6 [] c = "7" -> 7
      [] c = "8" -> 8 [] c = "9" -> 9
DigitChar(d) ==
    CASE d = 0 -> "0" [] d = 1 -> "1" [] d = 2 -> "2" [] d = 3 -> "3"
      [] d = 4 -> "4" [] d = 5 -> "5" [] d = 6 -> "6" [] d = 7 -> "7"
      [] d = 8 -> "8" [] d = 9 -> "9"

\* s[a:b] of Python, 0-based, b exclusive, a <= b <= len(s)
Slice(s, a, b) == SubSeq(s, a + 1, b)
\* s[i] of Python, 0-based
At(s, i) == s[i + 1]

RECURSIVE LStrip(_)
LStrip(s) == IF Len(s) > 0 /\ Head(s) = " " THEN LStrip(Tail(s)) ELSE s
RECURSIVE RStrip(_)
RStrip(s) ==
    IF Len(s) > 0 /\ s[Len(s)] = " " THEN RStrip(SubSeq(s, 1, Len(s) - 1)) ELSE s
\* str.strip(): leading and trailing whitespace removed
Strip(s) == RStrip(LStrip(s))

RECURSIVE DigitsValue(_)
DigitsValue(s) ==
    IF Len(s) = 0 THEN 0
    ELSE 10 * DigitsValue(SubSeq(s, 1, Len(s) - 1)) + DigitVal(s[Len(s)])
AllDigits(s) == Len(s) > 0 /\ \A i \in 1..Len(s) : s[i] \in Digits

\* int(str): surrounding whitespace ignored, one optional sign, then decimal
\* digits; anything else raises ValueError (ok = FALSE).
PyInt(s) ==
    LET t == Strip(s)
        signed == Len(t) > 0 /\ Head(t) \in {"+", "-"}
        body == IF signed THEN Tail(t) ELSE t
    IN  IF ~AllDigits(body) THEN NoneVal
        ELSE IF signed /\ Head(t) = "-" THEN Some(0 - DigitsValue(body))
        ELSE Some(DigitsValue(body))

RECURSIVE NatStr(_)
NatStr(n) == IF n < 10 THEN <<DigitChar(n)>> ELSE NatStr(n \div 10) \o <<DigitChar(n % 10)>>
\* format(v, "d"): no padding to a width
FmtPlain(v) == IF v < 0 THEN <<"-">> \o NatStr(0 - v) ELSE NatStr(v)
\* format(v, "02d"): the sign counts towards the width of 2, zero padded
Fmt02d(v) ==
    IF v < 0 THEN <<"-">> \o NatStr(0 - v)
    ELSE IF v < 10 THEN <<"0">> \o NatStr(v)
    ELSE NatStr(v)

(***************************************************************************)
(* validate_rtc_ascii                                                      *)
(***************************************************************************)
\* the test of line 50 with the hour bound off by one
TimeInRangeHour24(HH, MM, SS) == 0 <= HH /\ HH <= 24 /\ 0 <= MM /\ MM <= 59 /\ 0 <= SS /\ SS <= 59
\* line 50
TimeInRange(HH, MM, SS) == 0 <= HH /\ HH <= 23 /\ 0 <= MM /\ MM <= 59 /\ 0 <= SS /\ SS <= 59
\* the date test without an upper bound on the day
DateInRangeAnyDay(MO, DD) == 1 <= MO /\ MO <= 12 /\ 1 <= DD
\* line 52
DateInRange(MO, DD) == 1 <= MO /\ MO <= 12 /\ 1 <= DD /\ DD <= 31

validate_rtc_ascii(raw) ==
    LET s == Strip(raw)
    IN  IF Len(s) # 17 THEN NoneVal
        ELSE IF ~(At(s, 2) = ":" /\ At(s, 5) = ":" /\ At(s, 8) = "|"
                  /\ At(s, 11) = "/" /\ At(s, 14) = "/") THEN NoneVal
        ELSE
          LET HH == PyInt(Slice(s, 0, 2))
              MM == PyInt(Slice(s, 3, 5))
              SS == PyInt(Slice(s, 6, 8))
              DD == PyInt(Slice(s, 9, 11))
              MO == PyInt(Slice(s, 12, 14))
              YY == PyInt(Slice(s, 15, 17))
          IN  IF ~(HH.ok /\ MM.ok /\ SS.ok /\ DD.ok /\ MO.ok /\ YY.ok) THEN NoneVal
              ELSE IF ~TimeInRange(HH.val, MM.val, SS.val) THEN NoneVal
              ELSE IF ~DateInRange(MO.val, DD.val) THEN NoneVal
              ELSE Some(Fmt02d(HH.val) \o <<":">> \o Fmt02d(MM.val) \o <<":">>
                        \o Fmt02d(SS.val) \o <<"|">> \o Fmt02d(DD.val) \o <<"/">>
                        \o Fmt02d(MO.val) \o <<"/">> \o Fmt02d(YY.val))

(***************************************************************************)
(* Arguments validate_rtc_ascii is exercised on: every combination of the  *)
(* field spellings below around the five separators, optionally wrapped in *)
(* blanks, and the reference string with one separator replaced.           *)
(***************************************************************************)
HHFields == {<<"0","7">>, <<"2","3">>, <<"2","4">>, <<"2","5">>, <<"7">>, <<"+","7">>}
MMFields == {<<"0","0">>, <<"1","5">>, <<"5","9">>, <<"6","0">>, <<" ","5">>}
SSFields == {<<"0","0">>, <<"5","9">>, <<"6","0">>, <<"5"," ">>}
DDFields == {<<"0","1">>, <<"3","1">>, <<"3","2">>, <<"0","0">>, <<"1">>}
MOFields == {<<"0","1">>, <<"0","2">>, <<"1","2">>, <<"1","3">>, <<"0","0">>, <<"1">>}
YYFields == {<<"2","5">>, <<"9","9">>, <<"-","5">>, <<"0","2","5">>, <<"5"," ">>}
SepChars == {":", "|", "/", " ", "-"}

RtcJoin(hh, mm, ss, dd, mo, yy) ==
    hh \o <<":">> \o mm \o <<":">> \o ss \o <<"|">> \o dd \o <<"/">> \o mo \o <<"/">> \o yy
RtcReference == RtcJoin(<<"0","7">>, <<"1","5">>, <<"0","0">>, <<"0","1">>, <<"0","1">>, <<"2","5">>)
SepPositions == {2, 5, 8, 11, 14}

RtcInputs ==
    LET joined == {RtcJoin(hh, mm, ss, dd, mo, yy) :
                     hh \in HHFields, mm \in MMFields, ss \in SSFields,
                     dd \in DDFields, mo \in MOFields, yy \in YYFields}
        padded == {<<" ">> \o RtcReference, RtcReference \o <<" ">>,
                   <<" ", " ">> \o RtcReference \o <<" ">>}
        badsep == {[RtcReference EXCEPT ![p + 1] = c] : p \in SepPositions, c \in SepChars}
    IN  joined \cup padded \cup badsep

RtcInit == rtc_pc = "in" /\ rtc_in \in RtcInputs /\ rtc_v = NoneVal /\ rtc_again = NoneVal

\* the call validate_rtc_ascii(rtc_in)
RtcValidate ==
    /\ rtc_pc = "in"
    /\ rtc_v' = validate_rtc_ascii(rtc_in)
    /\ rtc_pc' = "out"
    /\ UNCHANGED <<rtc_in, rtc_again>>

\* the call validate_rtc_ascii(v) on a value v that validate_rtc_ascii returned
RtcValidateAgain ==
    /\ rtc_pc = "out"
    /\ rtc_v.ok
    /\ rtc_again' = validate_rtc_ascii(rtc_v.val)
    /\ rtc_pc' = "again"
    /\ UNCHANGED <<rtc_in, rtc_v>>

(***************************************************************************)
(* compute_minutes_table: the body of the loop over the dates              *)
(*                                                                         *)
(* A datetime of the date d is the number of minutes from d's local        *)
(* midnight to it (negative or beyond a day when it falls on another       *)
(* date); only its hour and minute are ever read.                          *)
(***************************************************************************)
PRAYERS == <<"Fajr", "Dhuhr", "Asr", "Maghrib", "Isha">>
Min(a, b) == IF a <= b THEN a ELSE b
Max(a, b) == IF a >= b THEN a ELSE b
LastMinute == 1439

\* line 153: dt + timedelta(minutes=mins)
adj(dt, mins) == dt + mins
HourOf(dt) == (dt \div 60) % 24
MinuteOf(dt) == dt % 60
\* line 157
to_min(dt) == HourOf(dt) * 60 + MinuteOf(dt)
\* line 159
ClampMinute(v) == Max(0, Min(LastMinute, v))

\* the repair without the ceiling of the last minute of the day
RepairStepUncapped(t, i) ==
    IF t[i] <= t[i - 1] THEN [t EXCEPT ![i] = t[i - 1] + 1] ELSE t
\* the repair with a strict comparison: a tie is left alone
RepairStepStrict(t, i) ==
    IF t[i] < t[i - 1] THEN [t EXCEPT ![i] = Min(t[i - 1] + 1, LastMinute)] ELSE t
\* line 161, for the 1-based position i
RepairStep(t, i) ==
    IF t[i] <= t[i - 1] THEN [t EXCEPT ![i] = Min(t[i - 1] + 1, LastMinute)] ELSE t
\* line 160: for i in range(1,5), from position i on
RECURSIVE RepairFrom(_, _)
RepairFrom(t, i) == IF i > Len(t) THEN t ELSE RepairFrom(RepairStep(t, i), i + 1)

\* line 154-158
RawMinutes(pt, offsets) == [i \in 1..5 |-> to_min(adj(pt[i], offsets[PRAYERS[i]]))]
\* lines 159-162
RowOfRaw(t) == RepairFrom([i \in 1..5 |-> ClampMinute(t[i])], 2)

OracleMinutes == {0, 300, 500, 600, 700, 1438, 1439}
Offs(f, d, a, m, i) ==
    [p \in {"Fajr", "Dhuhr", "Asr", "Maghrib", "Isha"} |->
        CASE p = "Fajr" -> f [] p = "Dhuhr" -> d [] p = "Asr" -> a
          [] p = "Maghrib" -> m [] p = "Isha" -> i]
OffsetChoices ==
    {Offs(0, 0, 0, 0, 0), Offs(1, 1, 1, 1, 1), Offs(-301, 0, 0, 0, 0),
     Offs(0, 0, 0, 739, 0), Offs(0, -1, 0, 0, 1440), Offs(0, 0, -200, 0, 1)}

TbIdle == tb_pc = "idle" /\ tb_pt = <<>> /\ tb_offsets = <<>> /\ tb_raw = <<>> /\ tb_row = <<>>
RtcIdle == rtc_pc = "idle" /\ rtc_in = <<>> /\ rtc_v = NoneVal /\ rtc_again = NoneVal

TbInit ==
    /\ tb_pc = "in"
    /\ tb_pt \in [1..5 -> OracleMinutes]
    /\ tb_offsets \in OffsetChoices
    /\ tb_raw = <<>>
    /\ tb_row = <<>>

\* lines 152-162 for one date
TbComputeRow ==
    /\ tb_pc = "in"
    /\ tb_raw' = RawMinutes(tb_pt, tb_offsets)
    /\ tb_row' = RowOfRaw(tb_raw')
    /\ tb_pc' = "out"
    /\ UNCHANGED <<tb_pt, tb_offsets>>


(***************************************************************************)
(* Bytes: struct.pack, str.encode("ascii"), zlib.crc32                     *)
(***************************************************************************)
Ord(c) ==
    CASE c \in Digits -> 48 + DigitVal(c)
      [] c = " " -> 32 [] c = "+" -> 43 [] c = "-" -> 45 [] c = "/" -> 47
      [] c = ":" -> 58 [] c = "|" -> 124
      [] c = "P" -> 80 [] c = "R" -> 82 [] c = "A" -> 65 [] c = "Y" -> 89
\* one character outside ASCII (e with acute accent), written by its code point
NonAscii == {"U+00E9"}
\* str.encode("ascii") raises UnicodeEncodeError on a character above 127
IsAscii(str) == \A i \in 1..Len(str) : str[i] \notin NonAscii
\* str.encode("ascii") / a bytes literal
AsciiBytes(str) == [i \in 1..Len(str) |-> Ord(str[i])]

\* struct.pack("<B", v), ("<H", v), ("<I", v): little-endian; a value outside
\* the field's range raises struct.error (see CanPackU8, CanPackU16)
CanPackU8(v) == 0 <= v /\ v <= 255
\* the range of the signed format "<h"
CanPackI16(v) == -32768 <= v /\ v <= 32767
CanPackU16(v) == 0 <= v /\ v <= 65535
PackU8(v) == <<v>>
PackU16(v) == <<v % 256, (v \div 256) % 256>>
PackU32(v) == <<v % 256, (v \div 256) % 256, (v \div 65536) % 256, v \div 16777216>>
RECURSIVE Pack5H(_)
\* struct.pack("<5H", *t)
Pack5H(t) == IF Len(t) = 0 THEN <<>> ELSE PackU16(Head(t)) \o Pack5H(Tail(t))

\* zlib.crc32: the byte-at-a-time table algorithm on the reflected polynomial
\* 0xEDB88320.  A 32-bit word is kept as its two 16-bit halves <<low, high>>.
\* exclusive or of two 4-bit values, two bytes, two 16-bit halves
XorNibble ==
    [a \in 0..15 |-> [b \in 0..15 |->
        (((a % 2) + (b % 2)) % 2)
        + 2 * ((((a \div 2) % 2) + ((b \div 2) % 2)) % 2)
        + 4 * ((((a \div 4) % 2) + ((b \div 4) % 2)) % 2)
        + 8 * (((a \div 8) + (b \div 8)) % 2)]]
Xor8(a, b) == XorNibble[a % 16][b % 16] + 16 * XorNibble[a \div 16][b \div 16]
Xor16(a, b) == Xor8(a % 256, b % 256) + 256 * Xor8(a \div 256, b \div 256)
XorWord(x, y) == <<Xor16(x[1], y[1]), Xor16(x[2], y[2])>>
\* x >> 1 and x >> 8
Shr1(x) == <<(x[1] \div 2) + (x[2] % 2) * 32768, x[2] \div 2>>
Shr8(x) == <<(x[1] \div 256) + (x[2] % 256) * 256, x[2] \div 256>>
CrcPoly == <<33568, 60856>>      \* 0x8320, 0xEDB8
RECURSIVE CrcTableEntry(_, _)
CrcTableEntry(c, k) ==
    IF k = 0 THEN c
    ELSE CrcTableEntry(IF c[1] % 2 = 1 THEN XorWord(CrcPoly, Shr1(c)) ELSE Shr1(c),
                       k - 1)
CrcTable == [n \in 0..255 |-> CrcTableEntry(<<n, 0>>, 8)]
CrcUpdate(crc, b) == XorWord(CrcTable[Xor8(crc[1] % 256, b)], Shr8(crc))
\* the register after the bytes data[from..to], starting from reg
CrcBlock(reg, data, from, to) ==
    LET run[st \in (from..(to + 1)) \X (0..65535) \X (0..65535)] ==
            IF st[1] > to THEN <<st[2], st[3]>>
            ELSE run[<<st[1] + 1>> \o CrcUpdate(<<st[2], st[3]>>, data[st[1]])]
    IN  run[<<from, reg[1], reg[2]>>]
\* the loop over the bytes of data: the register after data[from..to] is
\* the register after the second half of the span, started from the register
\* after its first half; spans of up to eight bytes are run byte by byte
CrcRun(init, data) ==
    LET span[st \in (1..(Len(data) + 1)) \X (0..Len(data)) \X (0..65535) \X (0..65535)] ==
            IF st[2] - st[1] < 8 THEN CrcBlock(<<st[3], st[4]>>, data, st[1], st[2])
            ELSE LET mid == (st[1] + st[2]) \div 2
                 IN  span[<<mid + 1, st[2]>> \o span[<<st[1], mid, st[3], st[4]>>]]
    IN  span[<<1, Len(data), init[1], init[2]>>]
\* zlib.crc32(data), as <<low half, high half>>
crc32(data) == XorWord(CrcRun(<<65535, 65535>>, data), <<65535, 65535>>)
\* struct.pack("<I", crc)
PackWord(x) == PackU16(x[1]) \o PackU16(x[2])

(***************************************************************************)
(* Dates: datetime.date, daterange                                         *)
(***************************************************************************)
Date(y, m, d) == [year |-> y, month |-> m, day |-> d]
IsLeap(y) == (y % 4 = 0 /\ y % 100 # 0) \/ y % 400 = 0
\* calendar.monthrange(year, month)[1]
DaysInMonth(y, m) ==
    IF m = 2 THEN (IF IsLeap(y) THEN 29 ELSE 28)
    ELSE IF m \in {4, 6, 9, 11} THEN 30 ELSE 31
\* a step that takes every February to have 28 days
NextDayNoLeap(d) ==
    IF d.day < (IF d.month = 2 THEN 28 ELSE DaysInMonth(d.year, d.month))
    THEN Date(d.year, d.month, d.day + 1)
    ELSE IF d.month < 12 THEN Date(d.year, d.month + 1, 1)
    ELSE Date(d.year + 1, 1, 1)
\* d + timedelta(days=1)
NextDay(d) ==
    IF d.day < DaysInMonth(d.year, d.month) THEN Date(d.year, d.month, d.day + 1)
    ELSE IF d.month < 12 THEN Date(d.year, d.month + 1, 1)
    ELSE Date(d.year + 1, 1, 1)
\* a <= b on dates
DateLE(a, b) ==
    \/ a.year < b.year
    \/ a.year = b.year /\ a.month < b.month
    \/ a.year = b.year /\ a.month = b.month /\ a.day <= b.day
\* date.toordinal()
ToOrdinal(d) ==
    LET y == d.year - 1
        before == [m \in 1..12 |->
                     CASE m = 1 -> 0 [] m = 2 -> 31 [] m = 3 -> 59 [] m = 4 -> 90
                       [] m = 5 -> 120 [] m = 6 -> 151 [] m = 7 -> 181 [] m = 8 -> 212
                       [] m = 9 -> 243 [] m = 10 -> 273 [] m = 11 -> 304 [] m = 12 -> 334]
    IN  365 * y + (y \div 4) - (y \div 100) + (y \div 400)
        + before[d.month] + (IF d.month > 2 /\ IsLeap(d.year) THEN 1 ELSE 0) + d.day
\* line 86
count_days(start, end) == (ToOrdinal(end) - ToOrdinal(start)) + 1
\* date.fromordinal(n)
DateOfOrdinal(n) ==
    LET n0 == n - 1
        n400 == n0 \div 146097
        r400 == n0 % 146097
        n100 == r400 \div 36524
        r100 == r400 % 36524
        n4 == r100 \div 1461
        r4 == r100 % 1461
        n1 == r4 \div 365
        r1 == r4 % 365
        y == n400 * 400 + n100 * 100 + n4 * 4 + n1 + 1
    IN  IF n1 = 4 \/ n100 = 4 THEN Date(y - 1, 12, 31)
        ELSE LET m == CHOOSE k \in 1..12 :
                         /\ ToOrdinal(Date(y, k, 1)) <= n
                         /\ n < ToOrdinal(Date(y, k, 1)) + DaysInMonth(y, k)
             IN  Date(y, m, n - ToOrdinal(Date(y, m, 1)) + 1)
RECURSIVE AddDays(_, _)
AddDays(d, n) == IF n = 0 THEN d ELSE AddDays(NextDay(d), n - 1)

(***************************************************************************)
(* write_pray2_bin                                                         *)
(***************************************************************************)
\* the table of methods with an entry for CUSTOM as well
MethodMapKeysWithCustom ==
    {"KARACHI", "MUSLIM_WORLD_LEAGUE", "EGYPTIAN", "MOON_SIGHTING_COMMITTEE",
     "UMM_AL_QURA", "NORTH_AMERICA", "CUSTOM"}
\* lines 21-28: the keys of METHOD_MAP
METHOD_MAP_KEYS ==
    {"KARACHI", "MUSLIM_WORLD_LEAGUE", "EGYPTIAN", "MOON_SIGHTING_COMMITTEE",
     "UMM_AL_QURA", "NORTH_AMERICA"}
\* the position of each method in the menu list METHODS (lines 13-20)
MethodMenuIndex ==
    [KARACHI |-> 1, MUSLIM_WORLD_LEAGUE |-> 2, EGYPTIAN |-> 3,
     MOON_SIGHTING_COMMITTEE |-> 4, UMM_AL_QURA |-> 5, NORTH_AMERICA |-> 6, CUSTOM |-> 0]
\* lines 29-32
MethodCodeDict ==
    [CUSTOM |-> 0, KARACHI |-> 1, MUSLIM_WORLD_LEAGUE |-> 2, EGYPTIAN |-> 3,
     UMM_AL_QURA |-> 4, MOON_SIGHTING_COMMITTEE |-> 5, NORTH_AMERICA |-> 6]
FLAG_RTC_ONE_SHOT == 16
Version == 2
HeaderSize == 64

\* a lookup that hands back a default for a name the dict does not hold
MethodMapDefaulted(key) == FALSE
\* line 150: METHOD_MAP[method_key] raises KeyError for a name that is no key
MethodMapMissing(key) == key \notin METHOD_MAP_KEYS

\* the lookup done through the menu order instead of the dict
MethodCodeByMenu(key) == MethodMenuIndex[key]
\* line 192: METHOD_CODE[method_key]
MethodCodeOf(key) == METHOD_CODE[key]

\* the start fields with month and day exchanged
StartFieldsDayFirst(start, days) ==
    PackU16(start.year) \o PackU16(days) \o PackU8(start.day) \o PackU8(start.month)
\* lines 207-210
StartFields(start, days) ==
    PackU16(start.year) \o PackU16(days) \o PackU8(start.month) \o PackU8(start.day)

\* the RTC text padded with blanks, or cut, to the 17 bytes of its field
RtcBytesPadded(a) ==
    [i \in 1..17 |-> IF i <= Len(a.rtc_ascii) THEN Ord(a.rtc_ascii[i]) ELSE 32]
\* line 194: rtc_ascii.encode("ascii")
RtcBytes(a) == AsciiBytes(a.rtc_ascii)

\* lines 203-221: the header of the call a, with days rows
HeaderBytes(a, days) ==
    AsciiBytes(<<"P", "R", "A", "Y", "2">>)
    \o PackU8(Version)
    \o PackU16(HeaderSize)
    \o StartFields(a.start, days)
    \o PackU8(a.flags % 256)
    \o PackU8(MethodCodeOf(a.method_key))
    \o RtcBytes(a)
    \o PackU8(0)
    \o Pack5H(a.default_on)
    \o PackU32(HeaderSize)
    \o PackU32(days * 5 * 2)
    \o PackU32(0)
    \o PackU32(0)
    \o PackU16(0)
    \o PackU16(0)

\* the loop of lines 224-225 leaving after its first row
TableBytesFirstRow(rs) == IF Len(rs) = 0 THEN <<>> ELSE Pack5H(Head(rs))
\* lines 224-225: ten bytes a row, row after row; byte i (from 1) is byte
\* (i-1) % 2 of value ((i-1) % 10) \div 2 of row (i-1) \div 10
TableBytes(rs) ==
    [i \in 1..(10 * Len(rs)) |->
        PackU16(rs[((i - 1) \div 10) + 1][(((i - 1) % 10) \div 2) + 1])[((i - 1) % 2) + 1]]

\* the trailer taken over the table alone
TrailerOfTable(header, table) == PackWord(crc32(table))
\* lines 228-229: the trailer appended to header + table
Trailer(header, table) == PackWord(crc32(header \o table))

\* a body that also carries the time of generation in a reserved field
BodyStamped(a, rs) ==
    [HeaderBytes(a, Len(rs)) EXCEPT ![61] = clock % 256] \o TableBytes(rs)
\* lines 203-225: buf before the trailer
Body(a, rs) == HeaderBytes(a, Len(rs)) \o TableBytes(rs)

\* lines 203-229: buf as written
Pray2Bytes(a, rs) ==
    LET body == Body(a, rs)
    IN  body \o Trailer(SubSeq(body, 1, HeaderSize), SubSeq(body, HeaderSize + 1, Len(body)))

\* the exception lines 192-221 raise for the call a with rows rs, "" if none
\* (192: the code lookup; 194: the encoding; 195-196: the length; 203-221: struct)
EncodeError(a, rs) ==
    IF a.method_key \notin DOMAIN METHOD_CODE THEN "KeyError"
    ELSE IF ~IsAscii(a.rtc_ascii) THEN "UnicodeEncodeError"
    ELSE IF Len(RtcBytes(a)) # 17 THEN "RuntimeError"
    ELSE IF ~(/\ CanPackU16(a.start.year) /\ CanPackU16(Len(rs))
              /\ CanPackU8(a.start.month) /\ CanPackU8(a.start.day)
              /\ CanPackU8(MethodCodeOf(a.method_key))
              /\ Len(a.default_on) = 5
              /\ \A i \in 1..Len(a.default_on) : CanPackU16(a.default_on[i]))
         THEN "struct.error"
    ELSE ""

\* lines 203-219: how many bytes buf holds when the first struct.pack that
\* raises is reached (the whole header when none does)
HeaderPrefixLen(a, days) ==
    IF ~CanPackU16(a.start.year) THEN 8
    ELSE IF ~CanPackU16(days) THEN 10
    ELSE IF ~CanPackU8(a.start.month) THEN 12
    ELSE IF ~CanPackU8(a.start.day) THEN 13
    ELSE IF ~CanPackU8(MethodCodeOf(a.method_key)) THEN 15
    ELSE IF ~(Len(a.default_on) = 5 /\ \A i \in 1..Len(a.default_on) : CanPackU16(a.default_on[i]))
         THEN 34
    ELSE HeaderSize
\* buf as the exception finds it: not yet created for the errors of lines
\* 192-196, the fields packed so far for a struct.error
BufAtRaise(a, rs) ==
    IF EncodeError(a, rs) = "struct.error"
    THEN SubSeq(HeaderBytes(a, Len(rs)), 1, HeaderPrefixLen(a, Len(rs)))
    ELSE <<>>

(***************************************************************************)
(* The calls write_pray2_bin is exercised on                               *)
(***************************************************************************)
MaxDays == 2
MaxRuns == 2
Paths == {"a.bin", "b.bin"}
StartDates == {Date(2025, 8, 28), Date(2024, 2, 28)}
\* the six menu methods, CUSTOM (a code but no menu entry) and a name that
\* neither table holds
MethodKeys == METHOD_MAP_KEYS \cup {"CUSTOM", "TEHRAN"}
OffsetArgs == {Offs(0, 0, 0, 0, 0), Offs(0, 0, 0, 299, 0)}
DurationArgs == {<<60, 45, 45, 45, 45>>, <<0, 36000, 1, 256, 300>>}
\* 17 characters no clock could show
RtcNoTime == RtcJoin(<<"2","5">>, <<"6","1">>, <<"6","1">>, <<"3","2">>, <<"1","3">>, <<"9","9">>)
\* the reference with a four-digit year: 19 characters
RtcLongYear == RtcJoin(<<"0","7">>, <<"1","5">>, <<"0","0">>, <<"0","1">>, <<"0","1">>, <<"2","0","2","5">>)
\* 17 characters, one of them outside ASCII
RtcAccented == [RtcReference EXCEPT ![9] = "U+00E9"]
RtcArgs == {RtcReference, RtcNoTime, Tail(RtcReference), RtcLongYear, RtcAccented}
FlagArgs == {0, FLAG_RTC_ONE_SHOT}
\* what the oracle may answer for a date
OracleRows == {<<300, 720, 900, 1140, 1230>>, <<300, 300, 500, 600, 700>>}
\* the path main's first call writes to, and what an earlier program may have
\* left there
FirstPath == "a.bin"
StaleFile == <<80, 82>>

WrInit ==
    /\ pc = "idle"
    /\ args = <<>>
    /\ cur = <<>>
    /\ rows = <<>>
    /\ oracle = <<>>
    /\ buf = <<>>
    /\ err = ""
    /\ fs \in {[p \in Paths |-> NoneVal],
               [p \in Paths |-> IF p = FirstPath THEN Some(StaleFile) ELSE NoneVal]}
    /\ fs_before = fs
    /\ clock = 0
    /\ runs = <<>>
    /\ METHOD_CODE = MethodCodeDict

\* main calls write_pray2_bin (line 286); compute_minutes_table is entered
Call ==
    /\ pc = "idle"
    /\ \E s \in StartDates, n \in 0..(MaxDays - 1), m \in MethodKeys,
          o \in OffsetArgs, dn \in DurationArgs, r \in RtcArgs, f \in FlagArgs :
          args' = [path |-> FirstPath, start |-> s, end |-> AddDays(s, n),
                   method_key |-> m, offsets |-> o, default_on |-> dn,
                   rtc_ascii |-> r, flags |-> f]
    /\ cur' = args'.start
    /\ rows' = <<>>
    /\ pc' = "table"
    /\ clock' = clock + 1
    /\ fs_before' = fs
    /\ UNCHANGED <<oracle, buf, err, fs, runs, METHOD_CODE>>

\* the same request again, to any path, while the earlier file is there
CallAgain ==
    /\ pc = "done"
    /\ Len(runs) < MaxRuns
    /\ \E p \in Paths : args' = [args EXCEPT !.path = p]
    /\ cur' = args.start
    /\ rows' = <<>>
    /\ buf' = <<>>
    /\ pc' = "table"
    /\ clock' = clock + 1
    /\ fs_before' = fs
    /\ UNCHANGED <<oracle, err, fs, runs, METHOD_CODE>>

\* line 150: METHOD_MAP[method_key] raises KeyError
TableKeyError ==
    /\ pc = "table"
    /\ MethodMapMissing(args.method_key)
    /\ pc' = "raised"
    /\ err' = "KeyError"
    /\ UNCHANGED <<args, cur, rows, oracle, buf, fs, fs_before, clock, runs, METHOD_CODE>>

\* lines 151-162: one date of the loop; the oracle answers as it did before
\* for a date it was already asked about
TableRow ==
    /\ pc = "table"
    /\ ~MethodMapMissing(args.method_key)
    /\ DateLE(cur, args.end)
    /\ \E pt \in OracleRows :
          /\ ToOrdinal(cur) \in DOMAIN oracle => pt = oracle[ToOrdinal(cur)]
          /\ oracle' = IF ToOrdinal(cur) \in DOMAIN oracle THEN oracle
                       ELSE (ToOrdinal(cur) :> pt) @@ oracle
          /\ rows' = Append(rows, RowOfRaw(RawMinutes(pt, args.offsets)))
    /\ cur' = NextDay(cur)
    /\ UNCHANGED <<pc, args, buf, err, fs, fs_before, clock, runs, METHOD_CODE>>

\* the oracle's failure with the output file already opened for writing
TableOracleRaiseAfterOpen ==
    /\ pc = "table"
    /\ ~MethodMapMissing(args.method_key)
    /\ DateLE(cur, args.end)
    /\ ToOrdinal(cur) \notin DOMAIN oracle
    /\ pc' = "raised"
    /\ err' = "OracleError"
    /\ fs' = [fs EXCEPT ![args.path] = Some(<<>>)]
    /\ UNCHANGED <<args, cur, rows, oracle, buf, fs_before, clock, runs, METHOD_CODE>>
\* line 152: PrayerTimes raises for the date d; the exception leaves
\* compute_minutes_table and write_pray2_bin (neither has a try)
TableOracleRaise ==
    /\ pc = "table"
    /\ ~MethodMapMissing(args.method_key)
    /\ DateLE(cur, args.end)
    /\ ToOrdinal(cur) \notin DOMAIN oracle
    /\ pc' = "raised"
    /\ err' = "OracleError"
    /\ UNCHANGED <<args, cur, rows, oracle, buf, fs, fs_before, clock, runs, METHOD_CODE>>

\* lines 190-229 once the table is complete: buf is built
Encode ==
    /\ pc = "table"
    /\ ~MethodMapMissing(args.method_key)
    /\ ~DateLE(cur, args.end)
    /\ EncodeError(args, rows) = ""
    /\ buf' = Pray2Bytes(args, rows)
    /\ pc' = "write"
    /\ UNCHANGED <<args, cur, rows, oracle, err, fs, fs_before, clock, runs, METHOD_CODE>>

\* lines 192-221 raise
EncodeRaise ==
    /\ pc = "table"
    /\ ~MethodMapMissing(args.method_key)
    /\ ~DateLE(cur, args.end)
    /\ EncodeError(args, rows) # ""
    /\ err' = EncodeError(args, rows)
    /\ buf' = BufAtRaise(args, rows)
    /\ pc' = "raised"
    /\ UNCHANGED <<args, cur, rows, oracle, fs, fs_before, clock, runs, METHOD_CODE>>

\* an open that leaves the path alone until the first write
OpenFileLazy ==
    /\ pc = "write"
    /\ pc' = "opened"
    /\ UNCHANGED <<args, cur, rows, oracle, buf, err, fs, fs_before, clock, runs, METHOD_CODE>>
\* line 231: open(path, "wb") creates the file, or empties the one there
OpenFile ==
    /\ pc = "write"
    /\ fs' = [fs EXCEPT ![args.path] = Some(<<>>)]
    /\ pc' = "opened"
    /\ UNCHANGED <<args, cur, rows, oracle, buf, err, fs_before, clock, runs, METHOD_CODE>>

\* line 232: f.write(buf), and the file is closed; the call returns None
WriteFile ==
    /\ pc = "opened"
    /\ fs' = [fs EXCEPT ![args.path] = Some(fs[args.path].val \o buf)]
    /\ runs' = Append(runs, [args |-> args, rows |-> rows, at |-> clock,
                             out |-> fs'[args.path].val])
    /\ pc' = "done"
    /\ UNCHANGED <<args, cur, rows, oracle, buf, err, fs_before, clock, METHOD_CODE>>

WrIdle ==
    /\ pc = "off" /\ args = <<>> /\ cur = <<>> /\ rows = <<>> /\ oracle = <<>> /\ buf = <<>>
    /\ err = "" /\ fs = <<>> /\ fs_before = <<>> /\ clock = 0 /\ runs = <<>>
    /\ METHOD_CODE = MethodCodeDict

(***************************************************************************)
(* write_pray2_bin on a span of about 179 years.  The call is followed as  *)
(* a whole up to its exception or to line 229; the oracle gives the same   *)
(* answer for every date.                                                  *)
(***************************************************************************)
\* the numbers of days around the largest a 16-bit day count holds
LongDayCounts == {65535, 65536, 65537, 65538}
LongStart == Date(1900, 1, 1)
\* what the oracle answers for every one of the dates
LongAnswer == <<300, 720, 900, 1140, 1230>>
LongArgs(n, m, dn, f) ==
    [path |-> FirstPath, start |-> LongStart,
     end |-> DateOfOrdinal(ToOrdinal(LongStart) + n - 1),
     method_key |-> m, offsets |-> Offs(0, 0, 0, 0, 0), default_on |-> dn,
     rtc_ascii |-> RtcReference, flags |-> f]
\* lines 152-162: the row made of the oracle's answer, no offsets applied
LongRow == RowOfRaw(RawMinutes(LongAnswer, Offs(0, 0, 0, 0, 0)))
\* lines 149-163 on the span of a: one row for every date
LongTable(a) == [k \in 1..count_days(a.start, a.end) |-> LongRow]
\* the calls followed: every method, duration vector and flag for the spans
\* that are too long, one call for the longest span that fits
LongCalls ==
    {LongArgs(n, m, dn, f) : n \in LongDayCounts \ {65535}, m \in METHOD_MAP_KEYS,
                             dn \in DurationArgs, f \in FlagArgs}
    \cup {LongArgs(65535, "KARACHI", <<60, 45, 45, 45, 45>>, FLAG_RTC_ONE_SHOT)}

\* lines 189-221 raise: the call is left with the exception, its table and
\* the oracle's answers are not kept
LongCallRaise ==
    /\ pc = "idle"
    /\ \E a \in LongCalls :
          /\ ~MethodMapMissing(a.method_key)
          /\ EncodeError(a, LongTable(a)) # ""
          /\ args' = a
          /\ err' = EncodeError(a, LongTable(a))
          /\ buf' = BufAtRaise(a, LongTable(a))
    /\ cur' = NextDay(args'.end)
    /\ pc' = "raised"
    /\ clock' = clock + 1
    /\ fs_before' = fs
    /\ UNCHANGED <<rows, oracle, fs, runs, METHOD_CODE>>

\* lines 189-229 without an exception: the table and buf are built
LongCallEncode ==
    /\ pc = "idle"
    /\ fs[FirstPath] = Some(StaleFile)
    /\ \E a \in LongCalls :
          /\ ~MethodMapMissing(a.method_key)
          /\ EncodeError(a, LongTable(a)) = ""
          /\ args' = a
          /\ rows' = LongTable(a)
          /\ oracle' = [o \in ToOrdinal(a.start)..ToOrdinal(a.end) |-> LongAnswer]
          /\ buf' = Pray2Bytes(a, rows')
    /\ cur' = NextDay(args'.end)
    /\ pc' = "write"
    /\ clock' = clock + 1
    /\ fs_before' = fs
    /\ UNCHANGED <<err, fs, runs, METHOD_CODE>>

(***************************************************************************)
(* get_default_durations                                                   *)
(***************************************************************************)
\* line 135
DefaultDurations == <<60, 45, 45, 45, 45>>
\* the range test with its upper limit left out
DurationInRangeNoCeiling(v) == ~(v < 0)
\* line 142: not (v<0 or v>36000)
DurationInRange(v) == ~(v < 0 \/ v > 36000)
\* lines 137-145: what is appended to out for prayer i when line was typed
DurationOf(i, line) ==
    LET s == Strip(line)
        v == PyInt(s)
    IN  IF Len(s) = 0 THEN DefaultDurations[i]
        ELSE IF ~v.ok THEN DefaultDurations[i]
        ELSE IF ~DurationInRange(v.val) THEN DefaultDurations[i]
        ELSE v.val

\* what may be typed at a prompt for seconds
DurLines ==
    {<<>>, <<" ">>, <<"0">>, <<"3","6","0","0","0">>, <<"3","6","0","0","1">>,
     <<"-","1">>, <<"x">>, <<" ","9","0"," ">>, <<"+","7">>}

DurIdle == dur_pc = "idle" /\ dur_typed = <<>> /\ dur_out = <<>>
DurInit == dur_pc = "in" /\ dur_typed = <<>> /\ dur_out = <<>>

\* lines 136-145: one turn of the loop over PRAYERS
DurAsk ==
    /\ dur_pc = "in"
    /\ Len(dur_out) < Len(PRAYERS)
    /\ \E line \in DurLines :
          /\ dur_typed' = Append(dur_typed, line)
          /\ dur_out' = Append(dur_out, DurationOf(Len(dur_out) + 1, line))
    /\ UNCHANGED dur_pc

\* line 146
DurReturn ==
    /\ dur_pc = "in"
    /\ Len(dur_out) = Len(PRAYERS)
    /\ dur_pc' = "returned"
    /\ UNCHANGED <<dur_typed, dur_out>>

(***************************************************************************)
(* ask_rtc_ascii                                                           *)
(***************************************************************************)
\* strftime("%H:%M:%S|%d/%m/%y"): every field zero padded to two digits, the
\* year without its century
Strftime(now) ==
    RtcJoin(Fmt02d(now.hour), Fmt02d(now.minute), Fmt02d(now.second),
            Fmt02d(now.day), Fmt02d(now.month), Fmt02d(now.year % 100))

\* the moments the generator may be run at
NowChoices ==
    {[hour |-> 7, minute |-> 5, second |-> 9, day |-> 1, month |-> 2, year |-> 2025],
     [hour |-> 23, minute |-> 59, second |-> 59, day |-> 31, month |-> 12, year |-> 1999],
     [hour |-> 0, minute |-> 0, second |-> 0, day |-> 29, month |-> 2, year |-> 2000]}
\* what may be typed at the prompt "RTC time: "
AskLines ==
    {<<>>, <<" ", " ">>,
     RtcReference,
     <<" ">> \o RtcReference \o <<" ">>,
     RtcJoin(<<"+","7">>, <<"1","5">>, <<"0","0">>, <<"0","1">>, <<"0","1">>, <<"2","5">>),
     RtcJoin(<<"0","7">>, <<"1","5">>, <<"0","0">>, <<"0","1">>, <<"0","1">>, <<"-","5">>),
     RtcJoin(<<"0","7">>, <<"1","5">>, <<"0","0">>, <<"3","1">>, <<"0","2">>, <<"9","9">>),
     RtcJoin(<<"7">>, <<"1","5">>, <<"0","0">>, <<"1">>, <<"1">>, <<"2","5">>),
     RtcJoin(<<"0","7">>, <<"1","5">>, <<"0","0">>, <<"3","2">>, <<"0","1">>, <<"2","5">>),
     RtcJoin(<<"2","4">>, <<"0","0">>, <<"0","0">>, <<"0","1">>, <<"0","1">>, <<"2","5">>),
     RtcJoin(<<"0","7">>, <<"1","5">>, <<"0","0">>, <<"0","1">>, <<"0","1">>, <<"2","0","2","5">>),
     <<"n", "o", "w">>}
\* how many refused entries in a row are followed
MaxRejected == 2

AskIdle ==
    /\ ask_pc = "idle" /\ ask_now = <<>> /\ ask_default = <<>> /\ ask_s = <<>>
    /\ ask_v = NoneVal /\ ask_ret = NoneVal /\ ask_rejected = 0
AskInit ==
    /\ ask_pc = "in" /\ ask_now \in NowChoices /\ ask_default = <<>> /\ ask_s = <<>>
    /\ ask_v = NoneVal /\ ask_ret = NoneVal /\ ask_rejected = 0

\* line 63
AskStart ==
    /\ ask_pc = "in"
    /\ ask_default' = Strftime(ask_now)
    /\ ask_pc' = "prompt"
    /\ UNCHANGED <<ask_now, ask_s, ask_v, ask_ret, ask_rejected>>

\* line 68: s = input("RTC time: ").strip()
AskInput ==
    /\ ask_pc = "prompt"
    /\ \E line \in AskLines :
          /\ (Len(Strip(line)) > 0 /\ ~validate_rtc_ascii(Strip(line)).ok)
                => ask_rejected < MaxRejected
          /\ ask_s' = Strip(line)
    /\ ask_pc' = "typed"
    /\ UNCHANGED <<ask_now, ask_default, ask_v, ask_ret, ask_rejected>>

\* lines 69-70
AskReturnDefault ==
    /\ ask_pc = "typed"
    /\ Len(ask_s) = 0
    /\ ask_ret' = Some(ask_default)
    /\ ask_pc' = "returned"
    /\ UNCHANGED <<ask_now, ask_default, ask_s, ask_v, ask_rejected>>

\* line 71
AskValidate ==
    /\ ask_pc = "typed"
    /\ Len(ask_s) > 0
    /\ ask_v' = validate_rtc_ascii(ask_s)
    /\ ask_pc' = "checked"
    /\ UNCHANGED <<ask_now, ask_default, ask_s, ask_ret, ask_rejected>>

\* lines 72-73
AskReturn ==
    /\ ask_pc = "checked"
    /\ ask_v.ok
    /\ ask_ret' = Some(ask_v.val)
    /\ ask_pc' = "returned"
    /\ UNCHANGED <<ask_now, ask_default, ask_s, ask_v, ask_rejected>>

\* a refused entry taken as it was typed
AskGiveUp ==
    /\ ask_pc = "checked"
    /\ ~ask_v.ok
    /\ ask_ret' = Some(ask_s)
    /\ ask_pc' = "returned"
    /\ ask_rejected' = ask_rejected + 1
    /\ UNCHANGED <<ask_now, ask_default, ask_s, ask_v>>
\* line 74 and back to line 67
AskRetry ==
    /\ ask_pc = "checked"
    /\ ~ask_v.ok
    /\ ask_pc' = "prompt"
    /\ ask_rejected' = ask_rejected + 1
    /\ UNCHANGED <<ask_now, ask_default, ask_s, ask_v, ask_ret>>

(***************************************************************************)
(* main: the year, the menu choice and the span they resolve to            *)
(***************************************************************************)
\* start, end before their assignment
NoDate == [year |-> 0, month |-> 0, day |-> 0]
\* line 96: the test under which ask_int returns v; any other entry is asked again
AskIntReturns(v, lo, hi) == lo <= v /\ v <= hi
\* lines 77-79
month_span(year, month) ==
    LET last == DaysInMonth(year, month)
    IN  <<Date(year, month, 1), Date(year, month, last)>>
\* a span that runs on into the next year instead of stopping at December
contiguous_months_span_wrap(year, start_month, months) ==
    LET end_month == start_month + months - 1
    IN  <<month_span(year, start_month)[1],
          IF end_month <= 12 THEN month_span(year, end_month)[2]
          ELSE month_span(year + 1, end_month - 12)[2]>>
\* lines 80-82
contiguous_months_span(year, start_month, months) ==
    LET end_month == Min(12, start_month + months - 1)
    IN  <<month_span(year, start_month)[1], month_span(year, end_month)[2]>>

\* the integers typed at the prompts, some outside what ask_int accepts
TypedYears == 1899..2101
TypedChoices == 0..8
TypedMonths == 0..13
TypedDays == 0..32

MainIdle ==
    /\ mn_pc = "idle" /\ mn_year = 0 /\ mn_choice = 0 /\ mn_ans = <<>>
    /\ mn_start = NoDate /\ mn_end = NoDate /\ mn_days = 0 /\ mn_err = ""
MainInit ==
    /\ mn_pc = "year" /\ mn_year = 0 /\ mn_choice = 0 /\ mn_ans = <<>>
    /\ mn_start = NoDate /\ mn_end = NoDate /\ mn_days = 0 /\ mn_err = ""

\* line 237
MainYear ==
    /\ mn_pc = "year"
    /\ \E v \in TypedYears :
        /\ AskIntReturns(v, 1900, 2100)
        /\ mn_year' = v
    /\ mn_pc' = "choice"
    /\ UNCHANGED <<mn_choice, mn_ans, mn_start, mn_end, mn_days, mn_err>>

\* line 248
MainChoice ==
    /\ mn_pc = "choice"
    /\ \E v \in TypedChoices :
        /\ AskIntReturns(v, 1, 7)
        /\ mn_choice' = v
        /\ mn_pc' = IF v = 1 THEN "span" ELSE "first"
    /\ UNCHANGED <<mn_year, mn_ans, mn_start, mn_end, mn_days, mn_err>>

\* the first ask_int of the branches 2 to 7: lines 251, 253, 256, 258, 260, 263
MainFirst ==
    /\ mn_pc = "first"
    /\ \E v \in TypedMonths :
        /\ AskIntReturns(v, 1, 12)
        /\ mn_ans' = <<v>>
    /\ mn_pc' = IF mn_choice \in {3, 6, 7} THEN "second" ELSE "span"
    /\ UNCHANGED <<mn_year, mn_choice, mn_start, mn_end, mn_days, mn_err>>

\* the second ask_int of the branches 3, 6 and 7: lines 253, 260, 263
MainSecond ==
    /\ mn_pc = "second"
    /\ \E v \in TypedMonths \cup TypedDays :
        /\ CASE mn_choice = 3 -> AskIntReturns(v, 1, DaysInMonth(mn_year, mn_ans[1]))
             [] mn_choice = 6 -> AskIntReturns(v, 1, 12)
             [] mn_choice = 7 -> AskIntReturns(v, mn_ans[1], 12)
        /\ mn_ans' = Append(mn_ans, v)
    /\ mn_pc' = "span"
    /\ UNCHANGED <<mn_year, mn_choice, mn_start, mn_end, mn_days, mn_err>>

\* start, end of lines 249-264
SpanOf(year, choice, ans) ==
    CASE choice = 1 -> <<Date(year, 1, 1), Date(year, 12, 31)>>
      [] choice = 2 -> month_span(year, ans[1])
      [] choice = 3 -> <<Date(year, ans[1], ans[2]), Date(year, ans[1], ans[2])>>
      [] choice = 4 -> contiguous_months_span(year, 1, ans[1])
      [] choice = 5 -> contiguous_months_span(year, Max(1, 13 - ans[1]), ans[1])
      [] choice = 6 -> contiguous_months_span(year, ans[1], ans[2])
      [] OTHER -> contiguous_months_span(year, ans[1], ans[2] - ans[1] + 1)

MainSpan ==
    /\ mn_pc = "span"
    /\ mn_start' = SpanOf(mn_year, mn_choice, mn_ans)[1]
    /\ mn_end' = SpanOf(mn_year, mn_choice, mn_ans)[2]
    /\ mn_pc' = "resolved"
    /\ UNCHANGED <<mn_year, mn_choice, mn_ans, mn_days, mn_err>>

\* lines 286-287: write_pray2_bin(bin_path, start, end, ...) up to line 208,
\* days = len(table) being count_days(start, end) and packed with "<H"
MainPackDays ==
    /\ mn_pc = "resolved"
    /\ mn_days' = count_days(mn_start, mn_end)
    /\ mn_err' = IF CanPackU16(count_days(mn_start, mn_end)) THEN "" ELSE "struct.error"
    /\ mn_pc' = "packed"
    /\ UNCHANGED <<mn_year, mn_choice, mn_ans, mn_start, mn_end>>

(***************************************************************************)
(* Specifications                                                          *)
(***************************************************************************)
Init == WrInit /\ RtcIdle /\ TbIdle /\ DurIdle /\ AskIdle /\ MainIdle
Next ==
    \/ Call /\ UNCHANGED <<rtcVars, tbVars, durVars, askVars, mainVars>>
    \/ CallAgain /\ UNCHANGED <<rtcVars, tbVars, durVars, askVars, mainVars>>
    \/ TableKeyError /\ UNCHANGED <<rtcVars, tbVars, durVars, askVars, mainVars>>
    \/ TableRow /\ UNCHANGED <<rtcVars, tbVars, durVars, askVars, mainVars>>
    \/ TableOracleRaise /\ UNCHANGED <<rtcVars, tbVars, durVars, askVars, mainVars>>
    \/ Encode /\ UNCHANGED <<rtcVars, tbVars, durVars, askVars, mainVars>>
    \/ EncodeRaise /\ UNCHANGED <<rtcVars, tbVars, durVars, askVars, mainVars>>
    \/ OpenFile /\ UNCHANGED <<rtcVars, tbVars, durVars, askVars, mainVars>>
    \/ WriteFile /\ UNCHANGED <<rtcVars, tbVars, durVars, askVars, mainVars>>
Spec == Init /\ [][Next]_vars

InitTable == TbInit /\ RtcIdle /\ WrIdle /\ DurIdle /\ AskIdle /\ MainIdle
NextTable == TbComputeRow /\ UNCHANGED <<rtcVars, wrVars, durVars, askVars, mainVars>>
SpecTable == InitTable /\ [][NextTable]_vars

InitRtc == RtcInit /\ TbIdle /\ WrIdle /\ DurIdle /\ AskIdle /\ MainIdle
NextRtc ==
    \/ RtcValidate /\ UNCHANGED <<tbVars, wrVars, durVars, askVars, mainVars>>
    \/ RtcValidateAgain /\ UNCHANGED <<tbVars, wrVars, durVars, askVars, mainVars>>
SpecRtc == InitRtc /\ [][NextRtc]_vars

InitLong == WrInit /\ RtcIdle /\ TbIdle /\ DurIdle /\ AskIdle /\ MainIdle
NextLong ==
    \/ LongCallRaise /\ UNCHANGED <<rtcVars, tbVars, durVars, askVars, mainVars>>
    \/ LongCallEncode /\ UNCHANGED <<rtcVars, tbVars, durVars, askVars, mainVars>>
    \/ OpenFile /\ UNCHANGED <<rtcVars, tbVars, durVars, askVars, mainVars>>
    \/ WriteFile /\ UNCHANGED <<rtcVars, tbVars, durVars, askVars, mainVars>>
SpecLong == InitLong /\ [][NextLong]_vars

InitDur == DurInit /\ RtcIdle /\ TbIdle /\ WrIdle /\ AskIdle /\ MainIdle
NextDur ==
    \/ DurAsk /\ UNCHANGED <<rtcVars, tbVars, wrVars, askVars, mainVars>>
    \/ DurReturn /\ UNCHANGED <<rtcVars, tbVars, wrVars, askVars, mainVars>>
SpecDur == InitDur /\ [][NextDur]_vars

InitAsk == AskInit /\ RtcIdle /\ TbIdle /\ WrIdle /\ DurIdle /\ MainIdle
NextAsk ==
    \/ AskStart /\ UNCHANGED <<rtcVars, tbVars, wrVars, durVars, mainVars>>
    \/ AskInput /\ UNCHANGED <<rtcVars, tbVars, wrVars, durVars, mainVars>>
    \/ AskReturnDefault /\ UNCHANGED <<rtcVars, tbVars, wrVars, durVars, mainVars>>
    \/ AskValidate /\ UNCHANGED <<rtcVars, tbVars, wrVars, durVars, mainVars>>
    \/ AskReturn /\ UNCHANGED <<rtcVars, tbVars, wrVars, durVars, mainVars>>
    \/ AskRetry /\ UNCHANGED <<rtcVars, tbVars, wrVars, durVars, mainVars>>
SpecAsk == InitAsk /\ [][NextAsk]_vars

InitMain == MainInit /\ RtcIdle /\ TbIdle /\ WrIdle /\ DurIdle /\ AskIdle
NextMain ==
    \/ MainYear /\ UNCHANGED <<rtcVars, tbVars, wrVars, durVars, askVars>>
    \/ MainChoice /\ UNCHANGED <<rtcVars, tbVars, wrVars, durVars, askVars>>
    \/ MainFirst /\ UNCHANGED <<rtcVars, tbVars, wrVars, durVars, askVars>>
    \/ MainSecond /\ UNCHANGED <<rtcVars, tbVars, wrVars, durVars, askVars>>
    \/ MainSpan /\ UNCHANGED <<rtcVars, tbVars, wrVars, durVars, askVars>>
    \/ MainPackDays /\ UNCHANGED <<rtcVars, tbVars, wrVars, durVars, askVars>>
SpecMain == InitMain /\ [][NextMain]_vars

(***************************************************************************)
(* Claims about validate_rtc_ascii (checked under SpecRtc)                 *)
(***************************************************************************)
\* s is 17 characters, the separators are in place and every field is two
\* decimal digits
TwoDigitForm(s) ==
    /\ Len(s) = 17
    /\ s[3] = ":" /\ s[6] = ":" /\ s[9] = "|" /\ s[12] = "/" /\ s[15] = "/"
    /\ \A i \in (1..17) \ {3, 6, 9, 12, 15} : s[i] \in Digits
FieldValue(s, i) == 10 * DigitVal(s[i]) + DigitVal(s[i + 1])
RtcShort == RtcJoin(<<"7">>, <<"1","5">>, <<"0","0">>, <<"1">>, <<"1">>, <<"2","5">>)
RtcDay32 == RtcJoin(<<"0","7">>, <<"1","5">>, <<"0","0">>, <<"3","2">>, <<"0","1">>, <<"2","5">>)
RtcFeb31 == RtcJoin(<<"0","7">>, <<"1","5">>, <<"0","0">>, <<"3","1">>, <<"0","2">>, <<"9","9">>)
RtcHour25 == RtcJoin(<<"2","5">>, <<"0","0">>, <<"0","0">>, <<"0","1">>, <<"0","1">>, <<"2","5">>)

\* C6: validate_rtc_ascii accepts a string only if it is exactly 17
\* characters HH:MM:SS|DD/MM/YY with two-digit fields and the separators in
\* place, and what it returns is the string it was given.
C6_AcceptsOnlyExactForm ==
    /\ (rtc_pc = "out" /\ rtc_v.ok) => (TwoDigitForm(rtc_in) /\ rtc_v.val = rtc_in)
    /\ (rtc_pc = "out" /\ rtc_in = RtcReference) => rtc_v = Some(RtcReference)
    /\ (rtc_pc = "out" /\ rtc_in = RtcShort) => rtc_v = NoneVal

\* C7: on a 17-character input with two-digit fields, validate_rtc_ascii
\* accepts exactly when HH is in 0..23, MM and SS in 0..59, the month in
\* 1..12 and the day in 1..31, whatever the month; 31/02/99 is accepted and
\* hour 25 is rejected.
C7_RangesDecide ==
    (rtc_pc = "out" /\ TwoDigitForm(rtc_in)) =>
        /\ rtc_v.ok <=> /\ FieldValue(rtc_in, 1) \in 0..23
                        /\ FieldValue(rtc_in, 4) \in 0..59
                        /\ FieldValue(rtc_in, 7) \in 0..59
                        /\ FieldValue(rtc_in, 10) \in 1..31
                        /\ FieldValue(rtc_in, 13) \in 1..12
        /\ rtc_in = RtcFeb31 => rtc_v.ok
        /\ rtc_in = RtcHour25 => ~rtc_v.ok
C7_Witness == rtc_pc = "out" /\ rtc_in = RtcFeb31 /\ rtc_v = Some(RtcFeb31)

\* C8 as stated: "07:15:00|32/01/25" is accepted.
C8_Day32Accepted == (rtc_pc = "out" /\ rtc_in = RtcDay32) => rtc_v.ok
\* C8 as amended: "07:15:00|32/01/25" is rejected, day 32 being outside 1..31;
\* the looseness covers only days 1..31 that the month does not have.
C8_Day32Rejected ==
    /\ (rtc_pc = "out" /\ rtc_in = RtcDay32) => rtc_v = NoneVal
    /\ (rtc_pc = "out" /\ rtc_in = RtcFeb31) => rtc_v.ok
C8_Witness == rtc_pc = "out" /\ rtc_in = RtcDay32 /\ ~rtc_v.ok

(***************************************************************************)
(* Claims about the rows of compute_minutes_table (checked under SpecTable)*)
(***************************************************************************)
\* C1: every produced row is strictly increasing, Fajr < Dhuhr < Asr <
\* Maghrib < Isha, with each value in 0..1439.
C1_RowStrictlyIncreasing ==
    tb_pc = "out" =>
        /\ \A i \in 1..5 : tb_row[i] \in 0..1439
        /\ \A i \in 1..4 : tb_row[i] < tb_row[i + 1]

\* C9: the repair goes over positions 2..5 left to right on the clamped
\* values: a value not above its repaired predecessor becomes
\* min(predecessor + 1, 1439), any other value stays, the first value is never
\* changed; [300,300,500,600,700] becomes [300,301,500,600,700].
C9_MonotonicRepair ==
    tb_pc = "out" =>
        LET c == [i \in 1..5 |-> IF tb_raw[i] < 0 THEN 0
                                 ELSE IF tb_raw[i] > 1439 THEN 1439 ELSE tb_raw[i]]
        IN  /\ tb_row[1] = c[1]
            /\ \A i \in 2..5 :
                  tb_row[i] = IF c[i] <= tb_row[i - 1]
                              THEN (IF tb_row[i - 1] + 1 < 1439 THEN tb_row[i - 1] + 1 ELSE 1439)
                              ELSE c[i]
            /\ tb_raw = <<300, 300, 500, 600, 700>> => tb_row = <<300, 301, 500, 600, 700>>
C9_Witness ==
    /\ tb_pc = "out"
    /\ tb_raw = <<300, 300, 500, 600, 700>>
    /\ tb_row = <<300, 301, 500, 600, 700>>

(***************************************************************************)
(* Claims about write_pray2_bin (checked under Spec)                       *)
(***************************************************************************)
\* the file the call in progress has just written
Written == fs[args.path].val
LE16(b, at) == b[at + 1] + 256 * b[at + 2]
Aug28 == Date(2025, 8, 28)
Aug29 == Date(2025, 8, 29)

\* C2: a call that succeeds on a span of D days writes exactly 64 + 10*D + 4
\* bytes: the 64-byte header, D rows of 10 bytes, the 4-byte trailer; the span
\* 2025-08-28..2025-08-29 gives day_count 2, table_size 20 and 88 bytes.
C2_FileLength ==
    pc = "done" =>
        /\ fs[args.path].ok
        /\ Len(Written) = 64 + 10 * count_days(args.start, args.end) + 4
        /\ (args.start = Aug28 /\ args.end = Aug29) =>
              /\ LE16(Written, 10) = 2
              /\ LE16(Written, 48) = 20 /\ LE16(Written, 50) = 0
              /\ Len(Written) = 88
C2_Witness ==
    /\ pc = "done" /\ args.start = Aug28 /\ args.end = Aug29
    /\ fs[args.path].ok /\ Len(Written) = 88

\* The CRC-32 of the reflected polynomial 0xEDB88320 taken bit by bit, least
\* significant bit first, from an all-ones register, complemented at the end.
RefBit(reg, bit) ==
    LET fb == ((reg[1] % 2) + bit) % 2
        sh == <<(reg[1] \div 2) + (reg[2] % 2) * 32768, reg[2] \div 2>>
    IN  IF fb = 1 THEN <<Xor16(sh[1], 33568), Xor16(sh[2], 60856)>> ELSE sh
RefByte(reg, b) ==
    RefBit(RefBit(RefBit(RefBit(RefBit(RefBit(RefBit(RefBit(reg,
        b % 2), (b \div 2) % 2), (b \div 4) % 2), (b \div 8) % 2),
        (b \div 16) % 2), (b \div 32) % 2), (b \div 64) % 2), (b \div 128) % 2)
RefBlock(reg, data, from, to) ==
    LET run[st \in (from..(to + 1)) \X (0..65535) \X (0..65535)] ==
            IF st[1] > to THEN <<st[2], st[3]>>
            ELSE run[<<st[1] + 1>> \o RefByte(<<st[2], st[3]>>, data[st[1]])]
    IN  run[<<from, reg[1], reg[2]>>]
RefCrc32(data) ==
    LET blocks[st \in (1..(Len(data) + 8)) \X (0..65535) \X (0..65535)] ==
            IF st[1] > Len(data) THEN <<65535 - st[2], 65535 - st[3]>>
            ELSE blocks[<<st[1] + 8>>
                        \o RefBlock(<<st[2], st[3]>>, data, st[1],
                                    IF st[1] + 7 < Len(data) THEN st[1] + 7 ELSE Len(data))]
    IN  blocks[<<1, 65535, 65535>>]

\* C3: the last 4 bytes of a written file are the little-endian CRC-32 of all
\* the bytes before them, the header followed by the table rows.
C3_TrailerIsCrc ==
    pc = "done" =>
        LET n == Len(Written)
            crc == RefCrc32(SubSeq(Written, 1, n - 4))
        IN  /\ n >= 68
            /\ SubSeq(Written, n - 3, n)
                 = <<crc[1] % 256, crc[1] \div 256, crc[2] % 256, crc[2] \div 256>>
\* the trailer zlib.crc32 gives for the two-day file of UMM_AL_QURA with the
\* rows below, durations 0,36000,1,256,300, flag 0x10 and RTC 07:15:00|01/01/25
C3_Witness ==
    /\ pc = "done" /\ args.start = Aug28 /\ args.end = Aug29
    /\ args.method_key = "UMM_AL_QURA" /\ args.flags = 16
    /\ args.rtc_ascii = RtcReference /\ args.default_on = <<0, 36000, 1, 256, 300>>
    /\ rows = << <<300, 720, 900, 1439, 1439>>, <<300, 301, 500, 899, 900>> >>
    /\ SubSeq(Written, 85, 88) = <<85, 90, 148, 223>>

\* what the claim counts as the inputs of a run: everything but the path
SameRequest(a, b) == [a EXCEPT !.path = ""] = [b EXCEPT !.path = ""]
\* C4: two runs with the same span, oracle answers, method, offsets, relay
\* durations, RTC string and flags write the same bytes, whatever the time of
\* the run and whatever an earlier run left behind.
C4_Deterministic ==
    \A i, j \in 1..Len(runs) :
        (SameRequest(runs[i].args, runs[j].args) /\ runs[i].rows = runs[j].rows)
            => runs[i].out = runs[j].out
C4_Witness ==
    /\ Len(runs) = 2
    /\ SameRequest(runs[1].args, runs[2].args)
    /\ runs[1].at # runs[2].at
    /\ runs[1].args.path = runs[2].args.path
    /\ runs[1].out = runs[2].out /\ Len(runs[2].out) = 88

\* C5: the header is 64 little-endian bytes: "PRAY2" at 0, version 2 at 5,
\* header_size 64 at 6, the start year at 8, the number of rows at 10, the
\* start month at 12 and day at 13, flags at 14, the method code at 15, the 17
\* RTC bytes at 16, a zero at 33, the five durations at 34, table_offset 64 at
\* 44, table_size = 10 * day_count at 48, zeros from 52 to 63.
C5_HeaderLayout ==
    pc = "done" =>
        LET h == Written
            code == CASE args.method_key = "KARACHI" -> 1
                      [] args.method_key = "MUSLIM_WORLD_LEAGUE" -> 2
                      [] args.method_key = "EGYPTIAN" -> 3
                      [] args.method_key = "UMM_AL_QURA" -> 4
                      [] args.method_key = "MOON_SIGHTING_COMMITTEE" -> 5
                      [] args.method_key = "NORTH_AMERICA" -> 6
                      [] OTHER -> 0
        IN  /\ SubSeq(h, 1, 5) = <<80, 82, 65, 89, 50>>
            /\ h[6] = 2
            /\ LE16(h, 6) = 64
            /\ LE16(h, 8) = args.start.year
            /\ LE16(h, 10) = Len(rows)
            /\ h[13] = args.start.month
            /\ h[14] = args.start.day
            /\ h[15] = args.flags
            /\ h[16] = code
            /\ \A i \in 1..17 : h[16 + i] = Ord(args.rtc_ascii[i])
            /\ Len(args.rtc_ascii) = 17
            /\ h[34] = 0
            /\ \A i \in 1..5 : LE16(h, 34 + 2 * (i - 1)) = args.default_on[i]
            /\ LE16(h, 44) = 64 /\ LE16(h, 46) = 0
            /\ LE16(h, 48) = 10 * LE16(h, 10) /\ LE16(h, 50) = 0
            /\ \A i \in 53..64 : h[i] = 0
\* the header struct.pack gives for the file of C3_Witness
C5_Witness ==
    /\ pc = "done"
    /\ SubSeq(Written, 1, 64) = 
        <<80, 82, 65, 89, 50, 2, 64, 0, 233, 7, 2, 0, 8, 28, 16, 4,
          48, 55, 58, 49, 53, 58, 48, 48, 124, 48, 49, 47, 48, 49, 47, 50,
          53, 0, 0, 0, 160, 140, 1, 0, 0, 1, 44, 1, 64, 0, 0, 0,
          20, 0, 0, 0, 0, 0, 0, 0, 0, 0, 0, 0, 0, 0, 0, 0>>

\* C10: the byte at offset 15 is the code the fixed table gives the method
\* name (CUSTOM=0, KARACHI=1, MUSLIM_WORLD_LEAGUE=2, EGYPTIAN=3, UMM_AL_QURA=4,
\* MOON_SIGHTING_COMMITTEE=5, NORTH_AMERICA=6), and no step changes the table.
C10_MethodCode ==
    /\ METHOD_CODE = [CUSTOM |-> 0, KARACHI |-> 1, MUSLIM_WORLD_LEAGUE |-> 2, EGYPTIAN |-> 3,
                      UMM_AL_QURA |-> 4, MOON_SIGHTING_COMMITTEE |-> 5, NORTH_AMERICA |-> 6]
    /\ \A i \in 1..Len(runs) :
          runs[i].out[16] =
              [CUSTOM |-> 0, KARACHI |-> 1, MUSLIM_WORLD_LEAGUE |-> 2, EGYPTIAN |-> 3,
               UMM_AL_QURA |-> 4, MOON_SIGHTING_COMMITTEE |-> 5,
               NORTH_AMERICA |-> 6][runs[i].args.method_key]
C10_Witness ==
    pc = "done" /\ args.method_key = "UMM_AL_QURA" /\ Written[16] = 4

\* C11: a call whose method name has no entry in METHOD_CODE ends in
\* KeyError: the oracle is never asked, no byte of the header is assembled
\* (so no code 0 stands in for the name) and no file is written.
C11_UnmappedMethodRaises ==
    (pc \notin {"idle", "off"} /\ args.method_key \notin DOMAIN METHOD_CODE) =>
        /\ pc \in {"table", "raised"}
        /\ pc = "raised" => err = "KeyError"
        /\ rows = <<>> /\ oracle = <<>> /\ buf = <<>>
        /\ runs = <<>>
        /\ fs = fs_before
C11_Witness ==
    /\ pc = "raised" /\ err = "KeyError" /\ args.method_key = "TEHRAN"
    /\ fs = fs_before /\ fs[args.path] = NoneVal

\* what the eight characters of a timestamp and the blank encode to
AsciiCode(c) ==
    CASE c = "0" -> 48 [] c = "1" -> 49 [] c = "2" -> 50 [] c = "3" -> 51 [] c = "4" -> 52
      [] c = "5" -> 53 [] c = "6" -> 54 [] c = "7" -> 55 [] c = "8" -> 56 [] c = "9" -> 57
      [] c = ":" -> 58 [] c = "|" -> 124 [] c = "/" -> 47 [] c = " " -> 32

\* C13: an RTC string that does not encode to exactly 17 bytes makes the
\* call raise with buf still empty and the filesystem as it was; a string
\* of 17 bytes stands in bytes 16..32 of the file character by character,
\* whether or not it reads as a time.
C13_RtcLengthChecked ==
    /\ (pc \notin {"idle", "off"} /\ ~MethodMapMissing(args.method_key)
          /\ (Len(args.rtc_ascii) # 17 \/ \E i \in 1..Len(args.rtc_ascii) :
                                             args.rtc_ascii[i] = "U+00E9")) =>
          /\ pc \in {"table", "raised"}
          /\ pc = "raised" => err \in {"RuntimeError", "UnicodeEncodeError", "OracleError"}
          /\ buf = <<>>
          /\ fs = fs_before
          /\ runs = <<>>
    /\ pc = "done" =>
          /\ Len(args.rtc_ascii) = 17
          /\ \A i \in 1..17 : Written[16 + i] = AsciiCode(args.rtc_ascii[i])
    /\ (pc = "done" /\ args.rtc_ascii = RtcNoTime) =>
          SubSeq(Written, 17, 33)
              = <<50, 53, 58, 54, 49, 58, 54, 49, 124, 51, 50, 47, 49, 51, 47, 57, 57>>
\* a 16-character RTC was refused after the whole table had been computed
C13_Witness ==
    /\ pc = "raised" /\ err = "RuntimeError" /\ Len(args.rtc_ascii) = 16
    /\ Len(rows) = MaxDays /\ buf = <<>> /\ fs = fs_before

\* the bytes of a whole file for the call in progress hold in buf: a header
\* announcing Len(rows) days, ten bytes a row and the four of the trailer
BufComplete ==
    /\ Len(buf) = 64 + 10 * Len(rows) + 4
    /\ Len(rows) = count_days(args.start, args.end)
    /\ buf[11] + 256 * buf[12] = Len(rows)

\* C14: write_pray2_bin is all or nothing.  A call that raises (the oracle
\* failing for a date, or a check of the encoder failing) raises out of the
\* table or header stage, asks the oracle nothing more and takes no further
\* step, and the filesystem is as the call found it; a file changes only at
\* open() and write(), both after buf is complete, and a file of a finished
\* call is the whole of buf.
C14_AllOrNothing ==
    /\ [](/\ pc = "raised" => (fs = fs_before /\ Len(buf) < HeaderSize)
          /\ pc = "table" => fs = fs_before
          /\ pc \in {"write", "opened", "done"} => BufComplete
          /\ pc = "opened" => fs = [fs_before EXCEPT ![args.path] = Some(<<>>)]
          /\ pc = "done" => fs = [fs_before EXCEPT ![args.path] = Some(buf)])
    /\ [][/\ pc = "raised" => UNCHANGED vars
          /\ pc' = "raised" => (pc = "table" /\ oracle' = oracle /\ fs' = fs)
          /\ fs' # fs => (pc \in {"write", "opened"} /\ BufComplete)]_vars
\* the oracle failed on the second date of a span, and the file an earlier
\* program left at the path is still there
C14_Witness ==
    /\ pc = "raised" /\ err = "OracleError" /\ Len(rows) = 1
    /\ fs[args.path] = Some(StaleFile) /\ fs = fs_before

Feb28 == Date(2024, 2, 28)
Feb29 == Date(2024, 2, 29)

\* C16: the table has one row for every date of the inclusive span, in the
\* order of the dates: there are (end - start).days + 1 rows, row k (from
\* 0) is what the oracle's answer for the date start + k days gives, and it
\* stands at offset 64 + 10k of the file.  The span from 28 February 2024
\* to the next day is 28 and 29 February.
C16_OneRowPerDate ==
    pc \in {"write", "opened", "done"} =>
        /\ Len(rows) = (ToOrdinal(args.end) - ToOrdinal(args.start)) + 1
        /\ \A k \in 0..(Len(rows) - 1) :
              LET o == ToOrdinal(args.start) + k
              IN  /\ o \in DOMAIN oracle
                  /\ rows[k + 1] = RowOfRaw(RawMinutes(oracle[o], args.offsets))
                  /\ pc = "done" =>
                        \A j \in 1..5 :
                           LE16(Written, HeaderSize + 10 * k + 2 * (j - 1)) = rows[k + 1][j]
        /\ (args.start = Feb28 /\ args.end = Feb29) =>
              /\ Len(rows) = 2
              /\ DOMAIN oracle = {738944, 738945}
              /\ cur = Date(2024, 3, 1)
        /\ (args.start = Aug28 /\ args.end = Aug29) =>
              /\ Len(rows) = 2
              /\ DOMAIN oracle = {739491, 739492}
              /\ cur = Date(2025, 8, 30)
\* the two days of a leap-year span got different answers from the oracle
C16_Witness ==
    /\ pc = "done" /\ args.start = Feb28 /\ args.end = Feb29
    /\ oracle[738944] # oracle[738945] /\ rows[1] # rows[2]
    /\ LE16(Written, 74) = rows[2][1]

\* C19 (under SpecTable): every row is non-decreasing with its values in
\* 0..1439; two neighbours are equal only when both are 1439; once a value
\* is 1439 every later value of the row is 1439.
C19_RowShape ==
    tb_pc = "out" =>
        /\ \A i \in 1..5 : 0 <= tb_row[i] /\ tb_row[i] <= 1439
        /\ \A i \in 1..4 : tb_row[i] <= tb_row[i + 1]
        /\ \A i \in 1..4 : tb_row[i] = tb_row[i + 1] => tb_row[i] = 1439
        /\ \A i \in 1..5 : \A j \in 1..5 : (i < j /\ tb_row[i] = 1439) => tb_row[j] = 1439
\* a row that reached the last minute at Asr, from times that went backwards
C19_Witness ==
    /\ tb_pc = "out"
    /\ tb_raw = <<300, 500, 1439, 700, 0>>
    /\ tb_row = <<300, 500, 1439, 1439, 1439>>

\* C20 (under Spec): no file written carries method code 0.  A call for
\* CUSTOM, which has a code but is no key of METHOD_MAP, raises KeyError in
\* compute_minutes_table before the oracle is asked or anything is encoded;
\* byte 15 of every file written is in 1..6.
C20_NoCustomFile ==
    /\ (pc \notin {"idle", "off"} /\ args.method_key = "CUSTOM") =>
          /\ pc \in {"table", "raised"}
          /\ pc = "raised" => err = "KeyError"
          /\ oracle = <<>> /\ rows = <<>> /\ buf = <<>>
          /\ fs = fs_before
    /\ \A i \in 1..Len(runs) :
          /\ runs[i].args.method_key # "CUSTOM"
          /\ runs[i].out[16] \in 1..6
    /\ \A p \in Paths :
          (fs[p].ok /\ Len(fs[p].val) >= HeaderSize) => fs[p].val[16] \in 1..6
C20_Witness ==
    /\ pc = "raised" /\ err = "KeyError" /\ args.method_key = "CUSTOM"
    /\ args.method_key \in DOMAIN METHOD_CODE /\ METHOD_CODE[args.method_key] = 0
    /\ buf = <<>> /\ fs = fs_before

\* the seconds a typed line stands for when it is a number in 0..36000
TypedSeconds(line) ==
    CASE line = <<"0">> -> Some(0)
      [] line = <<"3","6","0","0","0">> -> Some(36000)
      [] line = <<" ","9","0"," ">> -> Some(90)
      [] line = <<"+","7">> -> Some(7)
      [] OTHER -> NoneVal

\* C17 (under SpecDur): get_default_durations returns five durations, for
\* Fajr, Dhuhr, Asr, Maghrib and Isha in that order, each in 0..36000: the
\* number typed when it is one in that range, and otherwise (nothing typed,
\* no number, out of range) that prayer's default of 60, 45, 45, 45, 45;
\* each of them passes the encoder's 16-bit check.
C17_FiveDurationsInRange ==
    dur_pc = "returned" =>
        /\ Len(dur_out) = 5
        /\ \A i \in 1..5 :
              /\ 0 <= dur_out[i] /\ dur_out[i] <= 36000
              /\ dur_out[i] = IF TypedSeconds(dur_typed[i]).ok
                               THEN TypedSeconds(dur_typed[i]).val
                               ELSE <<60, 45, 45, 45, 45>>[i]
              /\ CanPackU16(dur_out[i])
C17_Witness ==
    /\ dur_pc = "returned"
    /\ dur_typed = << <<"3","6","0","0","1">>, <<>>, <<"x">>, <<"-","1">>, <<"3","6","0","0","0">> >>
    /\ dur_out = <<60, 45, 45, 45, 36000>>

\* C18 (under SpecAsk): ask_rtc_ascii asks again after every entry that
\* validate_rtc_ascii refuses, returning nothing at that point; what it
\* returns is the default, the current local time as HH:MM:SS|DD/MM/YY, when
\* the entry was empty, and otherwise the result of validate_rtc_ascii on
\* the entry, itself a string validate_rtc_ascii accepts; either way 17
\* characters that encode to the 17 bytes the encoder asks for.
C18_AskReturnsValidated ==
    /\ [](ask_pc = "returned" =>
            /\ ask_ret.ok
            /\ IF Len(ask_s) = 0
               THEN /\ ask_ret.val = ask_default
                    /\ ask_now.year = 2025 => ask_ret.val = RtcJoin(<<"0","7">>, <<"0","5">>, <<"0","9">>, <<"0","1">>, <<"0","2">>, <<"2","5">>)
                    /\ ask_now.year = 1999 => ask_ret.val = RtcJoin(<<"2","3">>, <<"5","9">>, <<"5","9">>, <<"3","1">>, <<"1","2">>, <<"9","9">>)
                    /\ ask_now.year = 2000 => ask_ret.val = RtcJoin(<<"0","0">>, <<"0","0">>, <<"0","0">>, <<"2","9">>, <<"0","2">>, <<"0","0">>)
               ELSE /\ validate_rtc_ascii(ask_s) = ask_ret
                    /\ validate_rtc_ascii(ask_ret.val) = ask_ret
            /\ Len(ask_ret.val) = 17
            /\ IsAscii(ask_ret.val)
            /\ Len(RtcBytes([rtc_ascii |-> ask_ret.val])) = 17)
    /\ [][(ask_pc = "checked" /\ ~validate_rtc_ascii(ask_s).ok)
             => (ask_pc' = "prompt" /\ ask_ret' = NoneVal)]_vars
\* a valid entry was returned after two refused ones
C18_Witness ==
    /\ ask_pc = "returned" /\ ask_rejected = MaxRejected
    /\ ask_s = RtcJoin(<<"+","7">>, <<"1","5">>, <<"0","0">>, <<"0","1">>, <<"0","1">>, <<"2","5">>)
    /\ ask_ret = Some(RtcReference)

\* C12 (under SpecLong): a call whose span has more than 65535 dates, and
\* so as many rows, raises struct.error at the day count, after the ten
\* bytes before it, with nothing written and the filesystem as it was; a
\* span of 65535 dates does not raise, 65535 stands in bytes 10..11 and the
\* file is complete.
C12_DayCountChecked ==
    /\ (pc \in {"write", "opened", "done", "raised"}
          /\ ToOrdinal(args.end) - ToOrdinal(args.start) + 1 > 65535) =>
          /\ pc = "raised"
          /\ err = "struct.error"
          /\ buf = <<80, 82, 65, 89, 50, 2, 64, 0, 108, 7>>
          /\ fs = fs_before
          /\ runs = <<>>
    /\ (pc \in {"write", "opened", "done", "raised"}
          /\ ToOrdinal(args.end) - ToOrdinal(args.start) + 1 <= 65535) =>
          /\ pc # "raised"
          /\ Len(rows) = 65535
    /\ pc = "done" =>
          /\ Len(rows) = 65535
          /\ Len(Written) = 655418
          /\ SubSeq(Written, 9, 16) = <<108, 7, 255, 255, 1, 1, 16, 1>>
          /\ SubSeq(Written, 49, 56) = <<246, 255, 9, 0, 0, 0, 0, 0>>
          /\ SubSeq(Written, 655415, 655418) = <<233, 96, 142, 198>>
\* the span 1 January 1900 to 6 June 2079 has 65536 dates
C12_Witness ==
    /\ pc = "raised" /\ err = "struct.error"
    /\ args.start = Date(1900, 1, 1) /\ args.end = Date(2079, 6, 6)
    /\ fs[args.path] = Some(StaleFile) /\ fs = fs_before

(***************************************************************************)
(* C21: every value validate_rtc_ascii returns other than None has exactly *)
(* 17 characters with ":", ":", "|", "/", "/" at the 0-based positions 2,  *)
(* 5, 8, 11 and 14, and validate_rtc_ascii applied to a value it returned  *)
(* returns that same value.                                                *)
(***************************************************************************)
RtcSeparators == [p \in SepPositions |->
    CASE p = 2 -> ":" [] p = 5 -> ":" [] p = 8 -> "|" [] p = 11 -> "/" [] p = 14 -> "/"]
C21_ResultShapeAndIdempotent ==
    /\ rtc_pc \in {"out", "again"} /\ rtc_v.ok =>
            /\ Len(rtc_v.val) = 17
            /\ \A p \in SepPositions : At(rtc_v.val, p) = RtcSeparators[p]
    /\ rtc_pc = "again" => rtc_again = rtc_v
\* a value was returned that differs from the text typed, and was validated again
C21_Witness ==
    /\ rtc_pc = "again"
    /\ rtc_v.ok
    /\ rtc_v.val # rtc_in
    /\ rtc_again.ok
    /\ rtc_again.val = rtc_v.val

(***************************************************************************)
(* C22: for every year of 1900..2100 and every sequence of answers main    *)
(* accepts under the choices 1 to 7, start <= end, both dates are of the   *)
(* chosen year, the number of days is between 1 and 366 and packing it     *)
(* into 16 bits raises nothing; under choice 6 with M + N - 1 > 12 the     *)
(* span is resolved and ends on 31 December of the year.                   *)
(***************************************************************************)
RunsPastDecember == mn_choice = 6 /\ Len(mn_ans) = 2 /\ mn_ans[1] + mn_ans[2] - 1 > 12
C22_SpanWithinYear ==
    /\ mn_pc \in {"resolved", "packed"} =>
            /\ mn_year \in 1900..2100
            /\ mn_choice \in 1..7
            /\ DateLE(mn_start, mn_end)
            /\ mn_start.year = mn_year
            /\ mn_end.year = mn_year
            /\ count_days(mn_start, mn_end) \in 1..366
            /\ CanPackU16(count_days(mn_start, mn_end))
            /\ RunsPastDecember =>
                    /\ mn_start = Date(mn_year, mn_ans[1], 1)
                    /\ mn_end = Date(mn_year, 12, 31)
    /\ mn_pc = "packed" => mn_days \in 1..366 /\ mn_err = ""
\* November for 5 months in the leap year 2000: resolved to 1 Nov - 31 Dec and packed
C22_Witness ==
    /\ mn_pc = "packed"
    /\ mn_year = 2000
    /\ mn_choice = 6
    /\ mn_ans = <<11, 5>>
    /\ mn_start = Date(2000, 11, 1)
    /\ mn_end = Date(2000, 12, 31)
    /\ mn_days = 61
    /\ mn_err = ""

====
